---- MODULE Spec2Model ----
(***************************************************************************)
(* Voice receive path and voice control channel of discord.js:             *)
(*   VoiceWebSocket (src/src/client/voice/VoiceWebSocket.js), the          *)
(*   control-channel state machine, and                                    *)
(*   VoiceReceiver  (src/unnamed/part_000), the packet receiver.           *)
(*                                                                         *)
(* Each class is modelled as a record of its fields; every method is an    *)
(* operator from record to record, named as in the source, so that a       *)
(* method calling another (connect -> reset -> clearHeartbeat) is the      *)
(* composition of the operators.  The actions are the entry points the     *)
(* runtime or the collaborator drives: calls, transport callbacks, timer   *)
(* callbacks, inbound datagrams.                                           *)
(***************************************************************************)
EXTENDS Integers, Sequences, FiniteSets, TLC

\* ------------------------------------------------------------------ bounds
MaxConnectCalls == 7    \* connect() invocations explored (the constructor's included)
MaxIntervals == 3       \* interval handles the runtime can hand out
MaxTimeouts == 3        \* timeout handles the runtime can hand out
MaxPcmListeners == 1    \* 'pcm' listeners registered on the receiver
TimeGrain == 35         \* largest step of the clock while a speaking timer runs
MaxBody == 4            \* bytes after the extension header in a stripped payload
MaxCount == 2           \* largest declared extension element count

\* ------------------------------------------------------- program constants
MaxAttempts == 5        \* VoiceWebSocket.connect: if (this.attempts >= 5)
Null == 0               \* null / undefined handle
SpeakingWindow == 70    \* VoiceReceiver: speaking timeout, ms
DisconnectWindow == 3000 \* VoiceReceiver: disconnectTimer, ms
NonceLength == 24       \* const nonce = Buffer.alloc(24)
HeaderLength == 12      \* RTP header: msg.slice(12, end), msg.copy(nonce, 0, 0, 12)
LiteNonceLength == 4    \* xsalsa20_poly1305_lite: msg.length - 4
SuffixNonceLength == 24 \* xsalsa20_poly1305_suffix: msg.length - 24
SpeakingPacketType == 144   \* packageType === 144

VARIABLES
  \* VoiceWebSocket fields
  dead, attempts, ws, heartbeatInterval, lastPongPacket,
  \* runtime state the VoiceWebSocket acts on
  readyState,        \* readyState of every transport created so far
  intervals,         \* interval timers alive in the runtime
  \* observation of the control channel
  wsEmitted,         \* events emitted by the last step, in order
  wsOp,              \* the entry point the last step ran
  wsFrom,            \* the transport whose callback the last step ran, if any
  connectCalls,      \* connect() invocations so far
  debugCount,        \* 'debug' events emitted so far
  \* VoiceReceiver fields
  pcmStreams, opusStreams, opusEncoders, speakingTimeouts, destroyed,
  disconnectTimer,
  nonce,             \* the module-level nonce buffer
  \* session context and runtime state the VoiceReceiver acts on
  mode,              \* voiceConnection.authentication.encryptionMode
  timeoutLeft,       \* ms left of every timeout handle, -1 when not running
  timeoutFor,        \* the callback of a handle: 0 disconnect, else the ssrc
  udpListeners,      \* times _listener is attached to the udp socket
  pcmListeners,      \* listenerCount('pcm')
  releasedStreams,   \* end-of-stream counts of the streams no table holds any more
  releasedDecoders,  \* destroy() counts of the decoders opusEncoders holds no more
  \* observation of the receiver
  speaking,          \* last speaking notification delivered per ssrc
  vrEmitted,         \* what the last step emitted, pushed and called, in order
  vrOp,              \* the entry point the last step ran
  \* the extension stripping applied to one decrypted payload
  stripIn, stripOut, stripPc

wsVars == <<dead, attempts, ws, heartbeatInterval, lastPongPacket, readyState,
            intervals, wsEmitted, wsOp, wsFrom, connectCalls, debugCount>>

vrVars == <<pcmStreams, opusStreams, opusEncoders, speakingTimeouts, destroyed,
            disconnectTimer, nonce, mode, timeoutLeft, timeoutFor, udpListeners,
            pcmListeners, releasedStreams, releasedDecoders,
            speaking, vrEmitted, vrOp>>

stripVars == <<stripIn, stripOut, stripPc>>

vars == <<wsVars, vrVars, stripVars>>

Min(a, b) == IF a < b THEN a ELSE b
Max(a, b) == IF a > b THEN a ELSE b

\* =====================================================================
\* VoiceWebSocket
\* =====================================================================
Transports == 1..MaxAttempts
Handles == 1..MaxIntervals
ConnErr == "uWs client connection error"

\* The fields of the object, with the runtime state it changes, as a record.
WSState ==
  [dead |-> dead, attempts |-> attempts, ws |-> ws,
   heartbeatInterval |-> heartbeatInterval, lastPongPacket |-> lastPongPacket,
   readyState |-> readyState, intervals |-> intervals, emitted |-> <<>>]

\* EventEmitter.emit(name, arg) as used by VoiceWebSocket.
emit(w, name, arg) == [w EXCEPT !.emitted = Append(@, <<name, arg>>)]

\* console.error(text, ...) as used by VoiceWebSocket: the log is kept with
\* the events of the call.
consoleError(w, text) == [w EXCEPT !.emitted = Append(@, <<"console.error", text>>)]

\* clearInterval of the runtime.
clearInterval(w, h) == [w EXCEPT !.intervals = @ \ {h}]

\* setInterval of the runtime: a handle that is not alive.
FreshHandle(w) == CHOOSE h \in Handles \ w.intervals :
                    \A g \in Handles \ w.intervals : h <= g

clearHeartbeat_NoClear(w) ==
  IF w.heartbeatInterval = Null
    THEN emit(w, "warn", "Tried to clear a heartbeat interval that does not exist")
    ELSE w

clearHeartbeat(w) ==
  IF w.heartbeatInterval = Null
    THEN emit(w, "warn", "Tried to clear a heartbeat interval that does not exist")
    ELSE [clearInterval(w, w.heartbeatInterval) EXCEPT !.heartbeatInterval = Null]

\* ws.close(): a transport that is not CLOSED starts closing; its close
\* callback is delivered later by the runtime.
wsClose(w, t) == [w EXCEPT !.readyState[t] = "CLOSING"]

reset(w) ==
  LET w1 == IF w.ws # Null
              THEN [(IF w.readyState[w.ws] # "CLOSED" THEN wsClose(w, w.ws) ELSE w)
                      EXCEPT !.ws = Null]
              ELSE w
  IN clearHeartbeat(w1)

shutdown(w) == reset([w EXCEPT !.dead = TRUE])

TooManyAttempts_Off(a) == a > MaxAttempts

TooManyAttempts(a) == a >= MaxAttempts

connect_Revive(w) ==
  LET w1 == IF w.ws # Null THEN reset(w) ELSE w
  IN IF TooManyAttempts(w1.attempts)
       THEN emit(w1, "debug", "Too many connection attempts")
       ELSE [w1 EXCEPT !.attempts = @ + 1,
                       !.ws = w1.attempts + 1,
                       !.readyState[w1.attempts + 1] = "CONNECTING"]

connect(w) ==
  IF w.dead THEN w
  ELSE LET w1 == IF w.ws # Null THEN reset(w) ELSE w
       IN IF TooManyAttempts(w1.attempts)
            THEN emit(w1, "debug", "Too many connection attempts")
            ELSE [w1 EXCEPT !.attempts = @ + 1,
                            !.ws = w1.attempts + 1,
                            !.readyState[w1.attempts + 1] = "CONNECTING"]

\* send(data): the promise resolves iff the current transport is OPEN and
\* the write reports no error.
sendOk(w, writeError) ==
  /\ w.ws # Null
  /\ w.readyState[w.ws] = "OPEN"
  /\ ~writeError

onOpen(w, writeError) ==
  IF sendOk(w, writeError) THEN w
  ELSE emit(w, "error", "Tried to send join packet, but the WebSocket is not open.")

ClosedLog == "TCP Voice Socket got closed, need a re-connect!"

onClose_Reconnect(w) ==
  LET w1 == reset(w)
  IN IF ~w1.dead
       THEN connect(emit(consoleError(w1, ClosedLog), "error", "reconnect_required"))
       ELSE w1

onClose(w) ==
  LET w1 == reset(w)
  IN IF ~w1.dead
       THEN emit(consoleError(w1, ClosedLog), "error", "reconnect_required")
       ELSE w1

onError_NoTeardown(w, message) ==
  LET w0 == consoleError(w, message)
  IN IF ~w0.dead
       THEN IF message = ConnErr
              THEN emit(w0, "error", "reconnect_required")
              ELSE emit(w0, "error", message)
       ELSE w0

onError(w, message) ==
  LET w0 == consoleError(w, message)
  IN IF ~w0.dead
       THEN IF message = ConnErr
              THEN emit(reset(w0), "error", "reconnect_required")
              ELSE emit(w0, "error", message)
       ELSE w0

NoInterval == "Tried to set voice heartbeat but no valid interval was specified."
Overwritten == "A voice heartbeat interval is being overwritten"

\* interval = 0 stands for every value with !interval || isNaN(interval).
setHeartbeat_Stack(w, interval) ==
  IF interval = 0
    THEN onError(w, NoInterval)
    ELSE LET w1 == IF w.heartbeatInterval # Null
                     THEN emit(w, "warn", Overwritten)
                     ELSE w
             h == FreshHandle(w1)
         IN [w1 EXCEPT !.heartbeatInterval = h, !.intervals = @ \cup {h}]

setHeartbeat(w, interval) ==
  IF interval = 0
    THEN onError(w, NoInterval)
    ELSE LET w1 == IF w.heartbeatInterval # Null
                     THEN clearInterval(
                            emit(w, "warn", Overwritten),
                            w.heartbeatInterval)
                     ELSE w
             h == FreshHandle(w1)
         IN [w1 EXCEPT !.heartbeatInterval = h, !.intervals = @ \cup {h}]

\* Inbound control messages.  "malformed" is text JSON.parse rejects;
\* INFO_NO_D is an INFO packet without payload, whose packet.d.heartbeat_interval
\* throws inside onPacket.
Packets ==
  { [op |-> "INFO", d |-> i] : i \in {0, 1} } \cup
  { [op |-> "PONG", d |-> p] : p \in {1, 2} } \cup
  { [op |-> o, d |-> 0] : o \in {"READY", "SESSION_DESCRIPTION", "SPEAKING", "UNKNOWN"} }

Messages == Packets \cup { [op |-> "malformed", d |-> 0], [op |-> "INFO_NO_D", d |-> 0] }

onPacket(w, packet) ==
  CASE packet.op = "INFO" -> setHeartbeat(w, packet.d)
    [] packet.op = "READY" -> emit(w, "ready", packet.d)
    [] packet.op = "SESSION_DESCRIPTION" -> emit(w, "sessionDescription", packet.d)
    [] packet.op = "SPEAKING" -> emit(w, "startSpeaking", packet.d)
    [] packet.op = "PONG" -> [w EXCEPT !.lastPongPacket = packet.d]
    [] OTHER -> emit(w, "unknownPacket", packet.d)

onMessage_Reset(w, m) ==
  CASE m.op = "malformed" -> reset(onError(w, "SyntaxError"))
    [] m.op = "INFO_NO_D" -> onError(w, "TypeError")
    [] OTHER -> onPacket(w, m)

onMessage(w, m) ==
  CASE m.op = "malformed" -> onError(w, "SyntaxError")
    [] m.op = "INFO_NO_D" -> onError(w, "TypeError")
    [] OTHER -> onPacket(w, m)

\* The rejection handler of sendHeartbeat runs when the send failed.
sendHeartbeat(w, writeError) ==
  IF sendOk(w, writeError) THEN w
  ELSE LET w1 == IF ~w.dead
                   THEN consoleError(w, "Heartbeat couldn't be delivered, maybe need a re-connect!?")
                   ELSE w
       IN clearHeartbeat(
            emit(w1, "warn", "Tried to send heartbeat, but connection is not open"))

CountOf(seq, name) == Cardinality({i \in DOMAIN seq : seq[i][1] = name})

\* Store the record back into the fields.
WSBecomes(w, op) ==
  /\ dead' = w.dead
  /\ attempts' = w.attempts
  /\ ws' = w.ws
  /\ heartbeatInterval' = w.heartbeatInterval
  /\ lastPongPacket' = w.lastPongPacket
  /\ readyState' = w.readyState
  /\ intervals' = w.intervals
  /\ wsEmitted' = w.emitted
  /\ wsOp' = op
  /\ debugCount' = debugCount + CountOf(w.emitted, "debug")
  /\ UNCHANGED <<vrVars, stripVars>>

\* The state the constructor leaves: attempts = 0, lastPongPacket = 0, then
\* connect() with this.dead still undefined, then dead = false.
WSConstructed ==
  connect([dead |-> FALSE, attempts |-> 0, ws |-> Null, heartbeatInterval |-> Null,
           lastPongPacket |-> 0, readyState |-> [t \in Transports |-> "NONE"],
           intervals |-> {}, emitted |-> <<>>])

InitWS ==
  /\ dead = FALSE
  /\ attempts = WSConstructed.attempts
  /\ ws = WSConstructed.ws
  /\ heartbeatInterval = WSConstructed.heartbeatInterval
  /\ lastPongPacket = WSConstructed.lastPongPacket
  /\ readyState = WSConstructed.readyState
  /\ intervals = WSConstructed.intervals
  /\ wsEmitted = WSConstructed.emitted
  /\ wsOp = "constructor"
  /\ wsFrom = Null
  /\ connectCalls = 1
  /\ debugCount = 0

\* ---- calls of the collaborator
Connect ==
  /\ connectCalls < MaxConnectCalls
  /\ connectCalls' = connectCalls + 1
  /\ WSBecomes(connect(WSState), "connect")
  /\ wsFrom' = Null

\* voiceConnection 'closing'
Shutdown ==
  /\ WSBecomes(shutdown(WSState), "shutdown")
  /\ wsFrom' = Null
  /\ UNCHANGED connectCalls

\* ---- callbacks of a transport (ws.onopen, onmessage, onclose, onerror).
\* A transport delivers callbacks until its close callback has been delivered.
TransportOpen(t, writeError) ==
  /\ readyState[t] = "CONNECTING"
  /\ WSBecomes(onOpen([WSState EXCEPT !.readyState[t] = "OPEN"], writeError), "onOpen")
  /\ wsFrom' = t
  /\ UNCHANGED connectCalls

TransportMessage(t, m) ==
  /\ readyState[t] \in {"OPEN", "CLOSING"}
  /\ WSBecomes(onMessage(WSState, m), "onMessage")
  /\ wsFrom' = t
  /\ UNCHANGED connectCalls

TransportClose(t) ==
  /\ readyState[t] \in {"CONNECTING", "OPEN", "CLOSING"}
  /\ WSBecomes(onClose([WSState EXCEPT !.readyState[t] = "CLOSED"]), "onClose")
  /\ wsFrom' = t
  /\ UNCHANGED connectCalls

TransportError(t, message) ==
  /\ readyState[t] \in {"CONNECTING", "OPEN", "CLOSING"}
  /\ WSBecomes(onError(WSState, message), "onError")
  /\ wsFrom' = t
  /\ UNCHANGED connectCalls

\* ---- callback of an interval timer that is alive
HeartbeatTick(h, writeError) ==
  /\ h \in intervals
  /\ WSBecomes(sendHeartbeat(WSState, writeError), "sendHeartbeat")
  /\ wsFrom' = Null
  /\ UNCHANGED connectCalls

NextWS ==
  \/ Connect
  \/ Shutdown
  \/ \E t \in Transports, e \in BOOLEAN : TransportOpen(t, e)
  \/ \E t \in Transports, m \in Messages : TransportMessage(t, m)
  \/ \E t \in Transports : TransportClose(t)
  \/ \E t \in Transports, msg \in {ConnErr, "other"} : TransportError(t, msg)
  \/ \E h \in Handles, e \in BOOLEAN : HeartbeatTick(h, e)


\* =====================================================================
\* VoiceReceiver
\* =====================================================================
Users == {1, 2}
SSRCs == {1, 2, 3}
Modes == {"xsalsa20_poly1305_lite", "xsalsa20_poly1305_suffix", "xsalsa20_poly1305"}
TimeoutHandles == 1..MaxTimeouts
Fail == <<-1>>          \* secretbox open returning no plaintext

ssrcMap_All(ssrc) == IF ssrc \in Users THEN ssrc ELSE 1

\* voiceConnection.ssrcMap.get(ssrc): the userID, Null when the ssrc is unknown.
ssrcMap(ssrc) == IF ssrc \in Users THEN ssrc ELSE Null

\* ---- Buffer primitives (0-based offsets, as in the source)
Zeros(n) == [i \in 1..n |-> 0]

\* source.copy(target, 0, sourceStart, sourceEnd)
BufCopy(source, target, sourceStart, sourceEnd) ==
  LET n == Min(sourceEnd - sourceStart, Len(target))
  IN [i \in 1..Len(target) |-> IF i <= n THEN source[sourceStart + i] ELSE target[i]]

\* buf.slice(start, end) / buf.slice(start)
BufSlice(buf, start, end) ==
  IF start >= Min(end, Len(buf)) THEN <<>> ELSE SubSeq(buf, start + 1, Min(end, Len(buf)))

\* buf[offset]; -1 stands for undefined (offset past the end)
ByteAt(buf, offset) == IF offset < Len(buf) THEN buf[offset + 1] ELSE -1

readUInt16BE(buf, offset) == buf[offset + 1] * 256 + buf[offset + 2]

readUInt32BE(buf, offset) ==
  ((buf[offset + 1] * 256 + buf[offset + 2]) * 256 + buf[offset + 3]) * 256 + buf[offset + 4]

\* ---- the wire: a datagram as the sender builds it for the session's mode.
\* Header: byte 0 the packet type, bytes 8..11 the ssrc; then the sealed box;
\* then the mode's trailing nonce bytes.
Header(m) == <<m.type, 120, 7, m.seq, 1, 2, 3, m.seq, 0, 0, 0, m.ssrc>>
SealedBox(m) == <<77>> \o m.payload
WireBox(m) == IF m.tampered THEN <<78>> \o m.payload ELSE SealedBox(m)
Trailer(m) ==
  CASE m.mode = "xsalsa20_poly1305_lite" -> <<161, 162, 163, m.seq>>
    [] m.mode = "xsalsa20_poly1305_suffix" -> [i \in 1..SuffixNonceLength |-> 200 + i]
    [] OTHER -> <<>>
Bytes(m) == Header(m) \o WireBox(m) \o Trailer(m)

\* The nonce the sender sealed the box with.
SealedNonce(m) ==
  CASE m.mode = "xsalsa20_poly1305_lite" -> Trailer(m) \o Zeros(NonceLength - LiteNonceLength)
    [] m.mode = "xsalsa20_poly1305_suffix" -> Trailer(m)
    [] OTHER -> Header(m) \o Zeros(NonceLength - HeaderLength)

\* secretbox.methods.open(box, nonce, key): the plaintext when the box is the
\* one sealed under that nonce, no plaintext otherwise.
secretboxOpen(m, box, nonceArg) ==
  IF box = SealedBox(m) /\ nonceArg = SealedNonce(m) THEN m.payload ELSE Fail

\* ---- RTP header extension stripping
NibbleOf_Low(byte) == IF byte < 0 THEN 0 ELSE byte % 16

\* 0b1111 & (byte >> 4); undefined >> 4 is 0
NibbleOf(byte) == IF byte < 0 THEN 0 ELSE (byte \div 16) % 16

RECURSIVE SkipElements(_, _, _)
SkipElements(data, offset, count) ==
  IF count = 0 THEN offset
  ELSE LET byte == ByteAt(data, offset)
       IN IF byte = 0
            THEN SkipElements(data, offset + 1, count - 1)
            ELSE SkipElements(data, offset + 1 + 1 + NibbleOf(byte), count - 1)

StripRTP(data) ==
  IF Len(data) > 4 /\ data[1] = 190 /\ data[2] = 222
    THEN BufSlice(data, SkipElements(data, 4, readUInt16BE(data, 2)) + 1, Len(data))
    ELSE data

\* ---- the object
\* The fields of the receiver, with the session context and runtime state it
\* acts on, as a record.  A table maps an identity to <<>> (no entry) or to
\* <<object>>.  overflow marks a step that needs a timeout handle beyond the
\* bound of the model.
VRState ==
  [pcmStreams |-> pcmStreams, opusStreams |-> opusStreams, opusEncoders |-> opusEncoders,
   speakingTimeouts |-> speakingTimeouts, destroyed |-> destroyed,
   disconnectTimer |-> disconnectTimer, nonce |-> nonce, mode |-> mode,
   timeoutLeft |-> timeoutLeft, timeoutFor |-> timeoutFor,
   udpListeners |-> udpListeners, pcmListeners |-> pcmListeners,
   releasedStreams |-> releasedStreams, releasedDecoders |-> releasedDecoders,
   speaking |-> speaking, emitted |-> <<>>, overflow |-> FALSE]

Event(ev, a, b) == [ev |-> ev, a |-> a, b |-> b]
vrEmit(r, ev, a, b) == [r EXCEPT !.emitted = Append(@, Event(ev, a, b))]

\* ---- timers of the runtime (client.setTimeout, clearTimeout, refresh)
FreeTimeouts(r) ==
  {h \in TimeoutHandles :
     /\ r.timeoutLeft[h] = -1
     /\ h # r.disconnectTimer
     /\ \A s \in SSRCs : r.speakingTimeouts[s] # h}

FirstOf(S) == IF S = {} THEN Null ELSE CHOOSE x \in S : \A y \in S : x <= y

setTimeout(r, h, for, ms) ==
  IF h = Null THEN [r EXCEPT !.overflow = TRUE]
  ELSE [r EXCEPT !.timeoutLeft[h] = ms, !.timeoutFor[h] = for]

clearTimeout(r, h) == [r EXCEPT !.timeoutLeft[h] = -1]

\* timeout.refresh(): the timer runs again for its full delay, also when it
\* has already called its callback.
refresh(r, h) ==
  [r EXCEPT !.timeoutLeft[h] =
     IF r.timeoutFor[h] = 0 THEN DisconnectWindow ELSE SpeakingWindow]

\* ---- streams (VoiceReadable) and decoders (OpusEngineList.fetch())
\* new Readable(): open, no end-of-stream received
NewStream == [open |-> TRUE, ends |-> 0]

\* Readable.push(null) on the stream object
streamEnd(stream) == [stream EXCEPT !.ends = Min(@ + 1, 2)]

\* VoiceReadable._push(null): if (this.open) this.push(null)
streamPushEnd(stream) == IF stream.open THEN streamEnd(stream) ELSE stream

\* OpusEncoders.fetch(): a new decoder, not destroyed
NewDecoder == [destroys |-> 0]

\* encoder.destroy() on the decoder object
decoderDestroy(decoder) == [decoder EXCEPT !.destroys = Min(@ + 1, 2)]

Size(table) == Cardinality({u \in Users : table[u] # <<>>})

stoppedSpeaking_Delete(r, user) ==
  LET r1 == IF r.opusStreams[user] # <<>>
              THEN [vrEmit(r, "end:opus", user, <<>>)
                      EXCEPT !.releasedStreams = @ \cup
                               {streamEnd(r.opusStreams[user][1]).ends},
                             !.opusStreams[user] = <<>>]
              ELSE r
      r2 == IF r1.pcmStreams[user] # <<>>
              THEN [vrEmit(r1, "end:pcm", user, <<>>)
                      EXCEPT !.releasedStreams = @ \cup
                               {streamEnd(r1.pcmStreams[user][1]).ends},
                             !.pcmStreams[user] = <<>>]
              ELSE r1
  IN IF r2.opusEncoders[user] # <<>>
       THEN [vrEmit(r2, "destroyDecoder", user, <<>>)
               EXCEPT !.releasedDecoders = @ \cup {decoderDestroy(r2.opusEncoders[user][1]).destroys},
                      !.opusEncoders[user] = <<>>]
       ELSE r2

\* stoppedSpeaking(user): the streams are ended and deleted from their
\* tables; the decoder is destroyed and stays in opusEncoders.
stoppedSpeaking(r, user) ==
  LET r1 == IF r.opusStreams[user] # <<>>
              THEN [vrEmit(r, "end:opus", user, <<>>)
                      EXCEPT !.releasedStreams = @ \cup
                               {streamEnd(r.opusStreams[user][1]).ends},
                             !.opusStreams[user] = <<>>]
              ELSE r
      r2 == IF r1.pcmStreams[user] # <<>>
              THEN [vrEmit(r1, "end:pcm", user, <<>>)
                      EXCEPT !.releasedStreams = @ \cup
                               {streamEnd(r1.pcmStreams[user][1]).ends},
                             !.pcmStreams[user] = <<>>]
              ELSE r1
  IN IF r2.opusEncoders[user] # <<>>
       THEN [vrEmit(r2, "destroyDecoder", user, <<>>)
               EXCEPT !.opusEncoders[user] = <<decoderDestroy(r2.opusEncoders[user][1])>>]
       ELSE r2

\* destroy(): the three loops, over the identities in ascending order
RECURSIVE destroyPcm(_, _)
destroyPcm(r, todo) ==
  IF todo = {} THEN r
  ELSE LET u == FirstOf(todo)
       IN destroyPcm(IF r.pcmStreams[u] # <<>>
                       THEN [vrEmit(r, "end:pcm", u, <<>>)
                               EXCEPT !.releasedStreams = @ \cup
                                        {streamPushEnd(r.pcmStreams[u][1]).ends},
                                      !.pcmStreams[u] = <<>>]
                       ELSE r,
                     todo \ {u})

RECURSIVE destroyOpus(_, _)
destroyOpus(r, todo) ==
  IF todo = {} THEN r
  ELSE LET u == FirstOf(todo)
       IN destroyOpus(IF r.opusStreams[u] # <<>>
                        THEN [vrEmit(r, "end:opus", u, <<>>)
                                EXCEPT !.releasedStreams = @ \cup
                                         {streamPushEnd(r.opusStreams[u][1]).ends},
                                       !.opusStreams[u] = <<>>]
                        ELSE r,
                      todo \ {u})

RECURSIVE destroyEncoders(_, _)
destroyEncoders(r, todo) ==
  IF todo = {} THEN r
  ELSE LET u == FirstOf(todo)
       IN destroyEncoders(IF r.opusEncoders[u] # <<>>
                            THEN [vrEmit(r, "destroyDecoder", u, <<>>)
                                    EXCEPT !.releasedDecoders = @ \cup
                                             {decoderDestroy(r.opusEncoders[u][1]).destroys},
                                           !.opusEncoders[u] = <<>>]
                            ELSE r,
                          todo \ {u})

destroy(r) ==
  LET r0 == [r EXCEPT !.udpListeners = Max(@ - 1, 0)]
      r1 == destroyEncoders(destroyOpus(destroyPcm(r0, Users), Users), Users)
  IN [r1 EXCEPT !.destroyed = TRUE]

recreate(r) ==
  IF ~r.destroyed THEN r
  ELSE [r EXCEPT !.udpListeners = @ + 1, !.destroyed = FALSE]

AlreadyOpen_Never(table, user) == FALSE

AlreadyOpen(table, user) == table[user] # <<>>

\* user is what resolveUser returned: Null when it cannot be resolved.
\* Map.set replaces the entry of the identity: a stream it held is no longer
\* referenced by the receiver.
createOpusStream(r, user) ==
  IF user = Null THEN vrEmit(r, "throw:resolve", user, <<>>)
  ELSE IF AlreadyOpen(r.opusStreams, user) THEN vrEmit(r, "throw:existing", user, <<>>)
  ELSE [vrEmit(r, "return:opus", user, <<>>)
          EXCEPT !.releasedStreams =
                   @ \cup {r.opusStreams[user][i].ends : i \in DOMAIN r.opusStreams[user]},
                 !.opusStreams[user] = <<NewStream>>]

createPCMStream(r, user) ==
  IF user = Null THEN vrEmit(r, "throw:resolve", user, <<>>)
  ELSE IF AlreadyOpen(r.pcmStreams, user) THEN vrEmit(r, "throw:existing", user, <<>>)
  ELSE [vrEmit(r, "return:pcm", user, <<>>)
          EXCEPT !.releasedStreams =
                   @ \cup {r.pcmStreams[user][i].ends : i \in DOMAIN r.pcmStreams[user]},
                 !.pcmStreams[user] = <<NewStream>>]

\* VoiceReadable._push(d) on the stream table[user] holds
streamPush(r, kind, table, user, d) ==
  IF table[user] # <<>> /\ table[user][1].open THEN vrEmit(r, kind, user, d) ELSE r

DecodeWanted_Always(r) == TRUE

DecodeWanted(r) == r.pcmListeners > 0 \/ Size(r.pcmStreams) > 0

\* the decode branch of handlePacket; "decode" records the destroy() calls
\* the decoder in use has received
decodeBranch(r, user, data, decodeError) ==
  LET r1 == IF r.opusEncoders[user] = <<>>
              THEN [vrEmit(r, "fetch", user, <<>>) EXCEPT !.opusEncoders[user] = <<NewDecoder>>]
              ELSE r
      r2 == vrEmit(r1, "decode", r1.opusEncoders[user][1].destroys, data)
  IN IF decodeError THEN vrEmit(r2, "warn:decode", user, <<>>)
     ELSE vrEmit(streamPush(r2, "push:pcm", r2.pcmStreams, user, data), "pcm", user, data)

NonceFor(r, msg) ==
  CASE r.mode = "xsalsa20_poly1305_lite" ->
         BufCopy(msg, r.nonce, Len(msg) - LiteNonceLength, Len(msg))
    [] r.mode = "xsalsa20_poly1305_suffix" ->
         BufCopy(msg, r.nonce, Len(msg) - SuffixNonceLength, Len(msg))
    [] OTHER -> BufCopy(msg, r.nonce, 0, HeaderLength)

EndFor(r, msg) ==
  CASE r.mode = "xsalsa20_poly1305_lite" -> Len(msg) - LiteNonceLength
    [] r.mode = "xsalsa20_poly1305_suffix" -> Len(msg) - SuffixNonceLength
    [] OTHER -> Len(msg)

DecryptFailed_Ignore(data) == FALSE

DecryptFailed(data) == data = Fail

\* handlePacket(msg, user); m is the datagram as sent, which decides what
\* the decryption primitive answers
handlePacket(r, m, user, decodeError) ==
  LET msg == Bytes(m)
      box == BufSlice(msg, HeaderLength, EndFor(r, msg))
      r1 == vrEmit([r EXCEPT !.nonce = NonceFor(r, msg)], "open", user, box)
      opened == secretboxOpen(m, box, r1.nonce)
  IN IF DecryptFailed(opened) THEN vrEmit(r1, "warn:decrypt", user, <<>>)
     ELSE LET data == StripRTP(opened)
              r2 == vrEmit(streamPush(r1, "push:opus", r1.opusStreams, user, data),
                           "opus", user, data)
          IN IF DecodeWanted(r2) THEN decodeBranch(r2, user, data, decodeError) ELSE r2

\* voiceConnection.onSpeaking({user_id, ssrc, speaking}): the notification
\* is emitted; the collaborator tears the speaker's streams down on a stop,
\* unless it throws before it gets there (acts = FALSE).
onSpeaking(r, user, ssrc, flag, acts) ==
  LET r1 == [vrEmit(r, IF flag THEN "speaking:true" ELSE "speaking:false", ssrc, <<user>>)
               EXCEPT !.speaking[ssrc] = IF flag THEN "start" ELSE "stop"]
  IN IF ~flag /\ acts THEN stoppedSpeaking(r1, user) ELSE r1

\* this._listener(msg)
listener(r, m, decodeError) ==
  LET msg == Bytes(m)
      r0 == vrEmit(r, "message", 0, msg)
      r1 == IF r0.disconnectTimer = Null
              THEN LET h == FirstOf(FreeTimeouts(r0))
                   IN [setTimeout(r0, h, 0, DisconnectWindow) EXCEPT !.disconnectTimer = h]
              ELSE refresh(r0, r0.disconnectTimer)
      packageType == ByteAt(msg, 0)
      ssrc == readUInt32BE(msg, 8)
      user == ssrcMap(ssrc)
      r2 == IF packageType = SpeakingPacketType /\ user = Null
              THEN vrEmit(r1, "log:ssrc not found", ssrc, <<>>)
              ELSE r1
  IN IF user = Null \/ r2.overflow THEN r2
     ELSE LET r3 == IF r2.speakingTimeouts[ssrc] = Null
                      THEN LET n == onSpeaking(r2, user, ssrc, TRUE, TRUE)
                               h == FirstOf(FreeTimeouts(n))
                           IN [setTimeout(n, h, ssrc, SpeakingWindow)
                                 EXCEPT !.speakingTimeouts[ssrc] = h]
                      ELSE refresh(r2, r2.speakingTimeouts[ssrc])
          IN IF r3.overflow THEN r3 ELSE handlePacket(r3, m, user, decodeError)

\* the callback of the disconnect timer
disconnectTimeout_KeepHandle(r, h) ==
  LET r0 == [r EXCEPT !.timeoutLeft[h] = -1]
  IN IF ~r0.destroyed THEN vrEmit(r0, "error:reconnect_required", 0, <<>>) ELSE r0

disconnectTimeout(r, h) ==
  LET r0 == [r EXCEPT !.timeoutLeft[h] = -1]
      r1 == [(IF r0.disconnectTimer # Null THEN clearTimeout(r0, r0.disconnectTimer) ELSE r0)
               EXCEPT !.disconnectTimer = Null]
  IN IF ~r1.destroyed THEN vrEmit(r1, "error:reconnect_required", 0, <<>>) ELSE r1

EntryDeleted_Kept(r, ssrc) == r

\* this.speakingTimeouts.delete(ssrc)
EntryDeleted(r, ssrc) == [r EXCEPT !.speakingTimeouts[ssrc] = Null]

\* the callback of a speaking timer; outcome is what onSpeaking does:
\* returns, throws before acting, or throws after acting.  A throw leaves
\* the try block before clearTimeout and delete.
speakingTimeout(r, h, outcome) ==
  LET ssrc == r.timeoutFor[h]
      user == ssrcMap(ssrc)
      r0 == [r EXCEPT !.timeoutLeft[h] = -1]
      r1 == onSpeaking(r0, user, ssrc, FALSE, outcome # "throwBefore")
  IN IF outcome = "ok"
       THEN EntryDeleted(clearTimeout(r1, h), ssrc)
       ELSE vrEmit(r1, "log:Connection already closed", ssrc, <<>>)

\* ---- state and steps of the receiver
VRBecomes(r, op) ==
  /\ ~r.overflow
  /\ pcmStreams' = r.pcmStreams
  /\ opusStreams' = r.opusStreams
  /\ opusEncoders' = r.opusEncoders
  /\ speakingTimeouts' = r.speakingTimeouts
  /\ destroyed' = r.destroyed
  /\ disconnectTimer' = r.disconnectTimer
  /\ nonce' = r.nonce
  /\ mode' = r.mode
  /\ timeoutLeft' = r.timeoutLeft
  /\ timeoutFor' = r.timeoutFor
  /\ udpListeners' = r.udpListeners
  /\ pcmListeners' = r.pcmListeners
  /\ releasedStreams' = r.releasedStreams
  /\ releasedDecoders' = r.releasedDecoders
  /\ speaking' = r.speaking
  /\ vrEmitted' = r.emitted
  /\ vrOp' = op
  /\ UNCHANGED <<wsVars, stripVars>>

\* The state the constructor leaves; the session's mode is negotiated
\* before the receiver exists.
InitVR ==
  /\ pcmStreams = [u \in Users |-> <<>>]
  /\ opusStreams = [u \in Users |-> <<>>]
  /\ opusEncoders = [u \in Users |-> <<>>]
  /\ speakingTimeouts = [s \in SSRCs |-> Null]
  /\ destroyed = FALSE
  /\ disconnectTimer = Null
  /\ nonce = Zeros(NonceLength)
  /\ mode \in Modes
  /\ timeoutLeft = [h \in TimeoutHandles |-> -1]
  /\ timeoutFor = [h \in TimeoutHandles |-> 0]
  /\ udpListeners = 1
  /\ pcmListeners = 0
  /\ releasedStreams = {}
  /\ releasedDecoders = {}
  /\ speaking = [s \in SSRCs |-> "none"]
  /\ vrEmitted = <<>>
  /\ vrOp = "constructor"

\* Datagrams on the wire.
PlainPayload == <<5, 6>>
ExtPayload == <<190, 222, 0, 1, 16, 9, 9, 9, 5, 6>>

Datagram(type, ssrc, payload, tampered) ==
  [mode |-> mode, type |-> type, ssrc |-> ssrc, seq |-> 1,
   payload |-> payload, tampered |-> tampered]

Datagrams ==
  { Datagram(SpeakingPacketType, 1, PlainPayload, FALSE),
    Datagram(SpeakingPacketType, 1, ExtPayload, FALSE),
    Datagram(SpeakingPacketType, 1, PlainPayload, TRUE),
    Datagram(SpeakingPacketType, 2, PlainPayload, FALSE),
    Datagram(SpeakingPacketType, 3, PlainPayload, FALSE),
    Datagram(129, 3, PlainPayload, FALSE) }

\* the datagrams of resolved speakers: intact from either, tampered from one
SpeakerDatagrams ==
  { Datagram(SpeakingPacketType, 1, PlainPayload, FALSE),
    Datagram(SpeakingPacketType, 1, PlainPayload, TRUE),
    Datagram(SpeakingPacketType, 2, PlainPayload, FALSE) }

Running == {h \in TimeoutHandles : timeoutLeft[h] >= 0}
Due == {h \in TimeoutHandles : timeoutLeft[h] = 0}

\* udp socket 'message'.  A timer that is due calls back before the next
\* datagram is handled.
Receive(m, decodeError) ==
  /\ udpListeners > 0
  /\ Due = {}
  /\ VRBecomes(listener(VRState, m, decodeError), "listener")

SpeakingTimerFires(h, outcome) ==
  /\ h \in Due
  /\ timeoutFor[h] # 0
  /\ VRBecomes(speakingTimeout(VRState, h, outcome), "speakingTimeout")

DisconnectTimerFires(h) ==
  /\ h \in Due
  /\ timeoutFor[h] = 0
  /\ VRBecomes(disconnectTimeout(VRState, h), "disconnectTimeout")

\* Time passes up to the next deadline, in steps of at most TimeGrain while
\* a speaking timer runs.
NextDeadline == FirstOf({timeoutLeft[h] : h \in Running})

Advance ==
  /\ Running # {}
  /\ Due = {}
  /\ LET d == IF \E h \in Running : timeoutFor[h] # 0
                THEN Min(TimeGrain, NextDeadline)
                ELSE NextDeadline
     IN timeoutLeft' = [h \in TimeoutHandles |->
                          IF h \in Running THEN timeoutLeft[h] - d ELSE timeoutLeft[h]]
  /\ vrEmitted' = <<>>
  /\ vrOp' = "advance"
  /\ UNCHANGED <<pcmStreams, opusStreams, opusEncoders, speakingTimeouts, destroyed,
                 disconnectTimer, nonce, mode, timeoutFor, udpListeners, pcmListeners,
                 releasedStreams, releasedDecoders, speaking>>
  /\ UNCHANGED <<wsVars, stripVars>>

Destroy == VRBecomes(destroy(VRState), "destroy")

Recreate == VRBecomes(recreate(VRState), "recreate")

StoppedSpeaking(user) == VRBecomes(stoppedSpeaking(VRState, user), "stoppedSpeaking")

CreateOpusStream(user) == VRBecomes(createOpusStream(VRState, user), "createOpusStream")

CreatePCMStream(user) == VRBecomes(createPCMStream(VRState, user), "createPCMStream")

\* receiver.on('pcm', ...) / removeListener('pcm', ...)
OnPcm ==
  /\ pcmListeners < MaxPcmListeners
  /\ VRBecomes([VRState EXCEPT !.pcmListeners = @ + 1], "on")

OffPcm ==
  /\ pcmListeners > 0
  /\ VRBecomes([VRState EXCEPT !.pcmListeners = @ - 1], "off")

\* the session context's mode changes (a session description arrived)
SessionDescription(newMode) ==
  /\ newMode # mode
  /\ VRBecomes([VRState EXCEPT !.mode = newMode], "sessionDescription")

\* Time and the speaking state machine: datagrams, the clock, the timers,
\* destroy and recreate.
NextSpeaking ==
  \/ \E m \in Datagrams, e \in BOOLEAN : Receive(m, e)
  \/ \E h \in TimeoutHandles, o \in {"ok", "throwBefore", "throwAfter"} :
       SpeakingTimerFires(h, o)
  \/ \E h \in TimeoutHandles : DisconnectTimerFires(h)
  \/ Advance
  \/ Destroy
  \/ Recreate

\* Streams and decoders: datagrams, stream creation, 'pcm' subscription,
\* stop-speaking teardown, destroy and recreate.
NextStreams ==
  \/ \E m \in SpeakerDatagrams, e \in BOOLEAN : Receive(m, e)
  \/ \E u \in Users : StoppedSpeaking(u)
  \/ \E u \in Users \cup {Null} : CreateOpusStream(u)
  \/ \E u \in Users \cup {Null} : CreatePCMStream(u)
  \/ OnPcm
  \/ OffPcm
  \/ Destroy
  \/ Recreate

\* Decryption across the modes of a session: datagrams and session
\* descriptions.
NextNonce ==
  \/ \E m \in Datagrams, e \in BOOLEAN : Receive(m, e)
  \/ \E md \in Modes : SessionDescription(md)

\* ---- the extension stripping on its own
StripBytes == {0, 1, 16, 17, 50}
Bodies == UNION {[1..k -> StripBytes] : k \in 0..MaxBody}
StripInputs ==
  { <<190, 222, 0, n>> \o b : n \in 0..MaxCount, b \in Bodies } \cup
  { <<x, y>> \o b : x \in {190, 5}, y \in {222, 5}, b \in {<<>>, <<0, 1>>, <<0, 1, 16>>} }

InitStrip == stripIn = <<>> /\ stripOut = <<>> /\ stripPc = "idle"

Strip ==
  /\ stripPc = "ready"
  /\ stripOut' = StripRTP(stripIn)
  /\ stripPc' = "done"
  /\ UNCHANGED <<stripIn, wsVars, vrVars>>

NextStrip == Strip

\* ---- specifications
Init == InitWS /\ InitVR /\ InitStrip

\* a session whose encryption mode is fixed
InitLite == Init /\ mode = "xsalsa20_poly1305_lite"

\* a decrypted payload about to be stripped
InitPayload ==
  /\ InitWS /\ InitVR /\ mode = "xsalsa20_poly1305_lite"
  /\ stripIn \in StripInputs /\ stripOut = <<>> /\ stripPc = "ready"

SpecWS == InitLite /\ [][NextWS]_vars

SpecSpeaking == InitLite /\ [][NextSpeaking]_vars

SpecStreams == InitLite /\ [][NextStreams]_vars

SpecNonce == Init /\ [][NextNonce]_vars

SpecStrip == InitPayload /\ [][NextStrip]_vars

\* =====================================================================
\* Properties of the control channel
\* =====================================================================
Created == {t \in Transports : readyState[t] # "NONE"}
Emitted(name, arg) == \E i \in DOMAIN wsEmitted : wsEmitted[i] = <<name, arg>>

\* C1. Reconnect ceiling.  Counting the invocation the constructor makes, the
\* first five connect() invocations on a machine that is not dead each add one
\* to the attempt counter and open a new transport; the sixth opens none and
\* emits the one 'debug' diagnostic, so that after six invocations exactly one
\* diagnostic has been emitted and five transports have been created.
C1_Counts ==
  ~dead =>
    /\ attempts = Min(connectCalls, MaxAttempts)
    /\ debugCount = Max(connectCalls - MaxAttempts, 0)
    /\ Cardinality(Created) = attempts

C1_Step ==
  (connectCalls' = connectCalls + 1 /\ ~dead) =>
    IF connectCalls' <= MaxAttempts
      THEN /\ attempts' = attempts + 1
           /\ ws' # Null /\ readyState[ws'] = "NONE" /\ readyState'[ws'] = "CONNECTING"
           /\ CountOf(wsEmitted', "debug") = 0
      ELSE /\ attempts' = attempts
           /\ ws' = Null
           /\ \A t \in Transports : readyState[t] = "NONE" => readyState'[t] = "NONE"
           /\ CountOf(wsEmitted', "debug") = 1

C1_ReconnectCeiling == [](C1_Counts) /\ [][C1_Step]_vars

C1_Witness ==
  /\ ~dead /\ wsOp = "connect" /\ connectCalls = MaxAttempts + 1
  /\ debugCount = 1 /\ ws = Null /\ attempts = MaxAttempts

\* C2. shutdown() is permanent: the step leaves the machine dead with no
\* transport handle and no heartbeat timer; once dead the machine stays dead
\* and without a handle, and every later connect() changes no field, opens no
\* transport and emits nothing.
C2_Step ==
  /\ wsOp' = "shutdown" => dead' /\ ws' = Null /\ heartbeatInterval' = Null
  /\ dead => dead' /\ ws' = Null
  /\ (dead /\ connectCalls' = connectCalls + 1) =>
       /\ UNCHANGED <<dead, attempts, ws, heartbeatInterval, lastPongPacket,
                      readyState, intervals, debugCount>>
       /\ wsEmitted' = <<>>

C2_ShutdownPermanent == [](dead => ws = Null) /\ [][C2_Step]_vars

C2_Witness == dead /\ wsOp = "connect" /\ ws = Null /\ attempts < MaxAttempts

\* C3 as claimed: a heartbeat timer exists if and only if the transport is
\* open and the machine is not dead.
TransportIsOpen == ws # Null /\ readyState[ws] = "OPEN"

C3_Original == (heartbeatInterval # Null) <=> (TransportIsOpen /\ ~dead)

\* C3 amended.  A heartbeat timer is armed only by an inbound message (INFO
\* with a valid interval), and every teardown leaves none armed: shutdown(),
\* the close callback, a connection-failure error on a machine that is not
\* dead, and connect() replacing a transport.
C3_Step ==
  /\ (heartbeatInterval' # Null /\ heartbeatInterval' # heartbeatInterval)
       => wsOp' = "onMessage"
  /\ wsOp' \in {"shutdown", "onClose"} => heartbeatInterval' = Null /\ ws' = Null
  /\ (wsOp' = "onError" /\ \E i \in DOMAIN wsEmitted' :
                              wsEmitted'[i] = <<"error", "reconnect_required">>)
       => heartbeatInterval' = Null /\ ws' = Null
  /\ (wsOp' = "connect" /\ ~dead /\ ws # Null) => heartbeatInterval' = Null

C3_HeartbeatArmedByInfoClearedByTeardown == [][C3_Step]_vars

\* a teardown that had a timer to clear
C3_Witness ==
  /\ wsOp = "onClose" /\ heartbeatInterval = Null /\ ws = Null
  /\ CountOf(wsEmitted, "warn") = 0

\* C11.  The close callback leaves no transport handle and no heartbeat
\* timer; it emits one reconnect-required 'error' when the machine is not
\* dead and no 'error' when it is; the attempt counter is unchanged and no
\* transport is created.
C11_Step ==
  wsOp' = "onClose" =>
    /\ ws' = Null /\ heartbeatInterval' = Null /\ intervals' = {}
    /\ CountOf(wsEmitted', "error") = (IF dead THEN 0 ELSE 1)
    /\ ~dead => \E i \in DOMAIN wsEmitted' : wsEmitted'[i] = <<"error", "reconnect_required">>
    /\ attempts' = attempts /\ dead' = dead
    /\ \A t \in Transports : readyState[t] = "NONE" => readyState'[t] = "NONE"

C11_CloseTearsDownNoReconnect == [][C11_Step]_vars

\* a close on a live machine that has attempts left
C11_Witness ==
  /\ wsOp = "onClose" /\ ~dead /\ attempts < MaxAttempts
  /\ Emitted("error", "reconnect_required") /\ ws = Null

\* C18.  The runtime holds at most one heartbeat interval, the one
\* heartbeatInterval names.  Arming while one is active emits the warning and
\* leaves the new one alone alive; arming with none active emits no warning.
\* An INFO message with an invalid or absent interval is logged, emits the
\* error on a machine that is not dead, arms nothing and leaves the timer,
\* the transport and the counter as they were.
EmittedNext(name, arg) == \E i \in DOMAIN wsEmitted' : wsEmitted'[i] = <<name, arg>>

C18_OneTimer ==
  /\ Cardinality(intervals) <= 1
  /\ intervals = (IF heartbeatInterval = Null THEN {} ELSE {heartbeatInterval})

C18_Step ==
  /\ EmittedNext("warn", Overwritten) =>
       /\ wsOp' = "onMessage"
       /\ heartbeatInterval # Null /\ heartbeatInterval' # Null
       /\ intervals' = {heartbeatInterval'}
  /\ (heartbeatInterval = Null /\ heartbeatInterval' # Null) =>
       /\ wsOp' = "onMessage" /\ CountOf(wsEmitted', "warn") = 0
       /\ intervals' = {heartbeatInterval'}
  /\ \A text \in {NoInterval, "TypeError"} :
       (wsOp' = "onMessage" /\ EmittedNext("console.error", text)) =>
         /\ UNCHANGED <<heartbeatInterval, intervals, ws, attempts, dead, readyState,
                        lastPongPacket>>
         /\ wsEmitted' = (IF dead THEN <<<<"console.error", text>>>>
                                  ELSE <<<<"console.error", text>>, <<"error", text>>>>)

C18_SingleHeartbeat == [](C18_OneTimer) /\ [][C18_Step]_vars

\* an INFO message arrived while a heartbeat was active
C18_Witness ==
  /\ wsOp = "onMessage" /\ Emitted("warn", Overwritten)
  /\ heartbeatInterval # Null /\ ~dead

\* C19.  The error callback on a machine that is not dead: for the
\* connection failure it leaves the fields as the close callback would (no
\* handle, no heartbeat) and emits one reconnect-required 'error'; for any
\* other error it emits that error and changes no field.  On a dead machine
\* it emits no 'error' and changes no field.
C19_Step ==
  \A text \in {ConnErr, "other"} :
    (wsOp' = "onError" /\ EmittedNext("console.error", text)) =>
      IF dead
        THEN /\ CountOf(wsEmitted', "error") = 0
             /\ UNCHANGED <<dead, attempts, ws, heartbeatInterval, lastPongPacket,
                            readyState, intervals>>
      ELSE IF text = ConnErr
        THEN /\ ws' = Null /\ heartbeatInterval' = Null /\ intervals' = {}
             /\ ws' = onClose(WSState).ws
             /\ heartbeatInterval' = onClose(WSState).heartbeatInterval
             /\ intervals' = onClose(WSState).intervals
             /\ readyState' = onClose(WSState).readyState
             /\ CountOf(wsEmitted', "error") = 1
             /\ EmittedNext("error", "reconnect_required")
             /\ UNCHANGED <<dead, attempts, lastPongPacket>>
        ELSE /\ CountOf(wsEmitted', "error") = 1 /\ EmittedNext("error", text)
             /\ UNCHANGED <<dead, attempts, ws, heartbeatInterval, lastPongPacket,
                            readyState, intervals>>

C19_ErrorLikeCloseOrRaw == [][C19_Step]_vars

\* a connection failure that had a transport and a heartbeat to tear down
C19_Witness ==
  /\ wsOp = "onError" /\ ~dead /\ Emitted("console.error", ConnErr)
  /\ Emitted("error", "reconnect_required") /\ CountOf(wsEmitted, "warn") = 0
  /\ ws = Null /\ \E t \in Transports : readyState[t] = "CLOSING"

\* C20.  A message that fails to parse is logged and, on a machine that is
\* not dead, emitted as an 'error'; nothing else is emitted and the transport
\* handle, the heartbeat timer, the attempt counter, the dead flag, the last
\* pong and the transports are as before, so the transport that delivered it
\* still delivers.
C20_Step ==
  (wsOp' = "onMessage" /\ EmittedNext("console.error", "SyntaxError")) =>
    /\ wsEmitted' = (IF dead THEN <<<<"console.error", "SyntaxError">>>>
                             ELSE <<<<"console.error", "SyntaxError">>,
                                    <<"error", "SyntaxError">>>>)
    /\ UNCHANGED <<dead, attempts, ws, heartbeatInterval, lastPongPacket,
                   readyState, intervals>>
    /\ \E t \in Transports : readyState'[t] \in {"OPEN", "CLOSING"}

C20_MalformedIsTransient == [][C20_Step]_vars

\* a malformed message on a live machine with a heartbeat and an observed pong
C20_Witness ==
  /\ wsOp = "onMessage" /\ Emitted("error", "SyntaxError") /\ ~dead
  /\ heartbeatInterval # Null /\ lastPongPacket # 0 /\ TransportIsOpen

\* C21 as claimed.  A close, error or message callback delivered by a
\* transport other than the current one leaves the current transport in
\* place and in its state, leaves the heartbeat timer as it was, and emits no
\* reconnect-required error.
Superseded ==
  /\ wsOp' \in {"onClose", "onError", "onMessage"}
  /\ ws # Null /\ wsFrom' # Null /\ wsFrom' # ws

C21_Step ==
  Superseded =>
    /\ ws' = ws /\ readyState'[ws] = readyState[ws]
    /\ heartbeatInterval' = heartbeatInterval /\ intervals' = intervals
    /\ ~EmittedNext("error", "reconnect_required")

C21_SupersededCallbacksIgnored == [][C21_Step]_vars

\* =====================================================================
\* Properties of the packet receiver
\* =====================================================================
VrEvents(ev) == {i \in DOMAIN vrEmitted : vrEmitted[i].ev = ev}
VrEventsNext(ev) == {i \in DOMAIN vrEmitted' : vrEmitted'[i].ev = ev}
VrEventFor(ev, a) == \E i \in DOMAIN vrEmitted : vrEmitted[i].ev = ev /\ vrEmitted[i].a = a
VrEventForNext(ev, a) ==
  \E i \in DOMAIN vrEmitted' : vrEmitted'[i].ev = ev /\ vrEmitted'[i].a = a

\* C4 as claimed.  Per source identifier the start and stop notifications
\* alternate, beginning with a start: a start is emitted only when the last
\* notification was not a start, a stop only when it was a start, and every
\* packet of a resolved source leaves the source announced as speaking (the
\* first packet after a stop, or the first ever, emits the start).
C4_Step ==
  \A s \in SSRCs :
    /\ VrEventForNext("speaking:true", s) => speaking[s] # "start"
    /\ VrEventForNext("speaking:false", s) => speaking[s] = "start"
    /\ (vrOp' = "listener" /\ VrEventForNext("open", ssrcMap(s)) /\ ssrcMap(s) # Null)
         => speaking'[s] = "start"

C4_SpeakingAlternates == [][C4_Step]_vars

\* C5.  A stream is un-ended and open while a table holds it, and has
\* received end-of-stream when it leaves the table, so that each identity has
\* at most one un-ended stream of each kind.  createOpusStream and
\* createPCMStream throw and change no table when the identity is unresolved
\* or already has a stream of that kind; otherwise they register a new stream
\* for that identity alone.
C5_Tables ==
  /\ \A u \in Users : Len(pcmStreams[u]) <= 1 /\ Len(opusStreams[u]) <= 1
  /\ \A u \in Users : \A i \in DOMAIN pcmStreams[u] : pcmStreams[u][i] = NewStream
  /\ \A u \in Users : \A i \in DOMAIN opusStreams[u] : opusStreams[u][i] = NewStream
  /\ \A e \in releasedStreams : e >= 1

C5_CreateStep(op, table, tableNext, other, otherNext) ==
  vrOp' = op =>
    LET u == vrEmitted'[1].a
    IN IF u = Null \/ table[u] # <<>>
         THEN /\ vrEmitted'[1].ev = (IF u = Null THEN "throw:resolve" ELSE "throw:existing")
              /\ tableNext = table /\ otherNext = other
              /\ UNCHANGED <<opusEncoders, releasedStreams, releasedDecoders>>
         ELSE /\ vrEmitted'[1].ev \in {"return:opus", "return:pcm"}
              /\ tableNext = [table EXCEPT ![u] = <<NewStream>>] /\ otherNext = other
              /\ UNCHANGED <<opusEncoders, releasedStreams, releasedDecoders>>

C5_Step ==
  /\ C5_CreateStep("createOpusStream", opusStreams, opusStreams', pcmStreams, pcmStreams')
  /\ C5_CreateStep("createPCMStream", pcmStreams, pcmStreams', opusStreams, opusStreams')

C5_OneStreamPerIdentity == [](C5_Tables) /\ [][C5_Step]_vars

C5_Witness ==
  /\ vrOp = "createPCMStream" /\ VrEventFor("throw:existing", 1)
  /\ pcmStreams[1] = <<NewStream>> /\ opusStreams[1] = <<NewStream>>

\* C6.  A datagram that decrypts is decoded if and only if there is a 'pcm'
\* listener or a registered decoded-audio stream; when there is neither, no
\* decoder is fetched, opusEncoders is unchanged and no decoded audio is
\* emitted or pushed.
Decrypted == vrOp' = "listener" /\ VrEventsNext("opus") # {}

C6_Step ==
  Decrypted =>
    IF pcmListeners = 0 /\ Size(pcmStreams) = 0
      THEN /\ VrEventsNext("fetch") = {} /\ VrEventsNext("decode") = {}
           /\ VrEventsNext("pcm") = {} /\ VrEventsNext("push:pcm") = {}
           /\ opusEncoders' = opusEncoders
      ELSE Cardinality(VrEventsNext("decode")) = 1

DocumentedNonce(msg, md) ==
  CASE md = "xsalsa20_poly1305_lite" ->
         SubSeq(msg, Len(msg) - 3, Len(msg)) \o Zeros(NonceLength - LiteNonceLength)
    [] md = "xsalsa20_poly1305_suffix" -> SubSeq(msg, Len(msg) - 23, Len(msg))
    [] OTHER -> SubSeq(msg, 1, HeaderLength) \o Zeros(NonceLength - HeaderLength)

DocumentedBox(msg, md) ==
  CASE md = "xsalsa20_poly1305_lite" -> SubSeq(msg, HeaderLength + 1, Len(msg) - 4)
    [] md = "xsalsa20_poly1305_suffix" -> SubSeq(msg, HeaderLength + 1, Len(msg) - 24)
    [] OTHER -> SubSeq(msg, HeaderLength + 1, Len(msg))

C7_NonceFollowsRule ==
  (vrOp = "listener" /\ VrEvents("open") # {}) =>
    \A i \in VrEvents("open") :
      /\ nonce = DocumentedNonce(vrEmitted[1].b, mode)
      /\ vrEmitted[i].b = DocumentedBox(vrEmitted[1].b, mode)

\* C8 as claimed, on the payloads whose declared elements lie inside the
\* payload.  Without the marker, or with 4 bytes or fewer, the output is the
\* input; with it the cursor starts at 4, advances by 1 for a zero byte and
\* by 1 + the low 4 bits of the leading byte for any other element, over the
\* declared count, skips one more byte, and the output is the rest.
RECURSIVE DocumentedCursor(_, _, _)
DocumentedCursor(data, cursor, count) ==
  IF count = 0 THEN cursor
  ELSE IF cursor >= Len(data) THEN Len(data) + 1
  ELSE IF data[cursor + 1] = 0
         THEN DocumentedCursor(data, cursor + 1, count - 1)
         ELSE DocumentedCursor(data, cursor + 1 + (data[cursor + 1] % 16), count - 1)

HasMarker(data) == Len(data) > 4 /\ data[1] = 190 /\ data[2] = 222

DocumentedStrip(data) ==
  IF HasMarker(data)
    THEN LET c == DocumentedCursor(data, 4, data[3] * 256 + data[4]) + 1
         IN IF c >= Len(data) THEN <<>> ELSE SubSeq(data, c + 1, Len(data))
    ELSE data

WellFormed(data) ==
  HasMarker(data) => DocumentedCursor(data, 4, data[3] * 256 + data[4]) < Len(data)

C8_StripFollowsRule ==
  (stripPc = "done" /\ WellFormed(stripIn)) => stripOut = DocumentedStrip(stripIn)

\* C9.  A datagram of a resolved source that fails to decrypt emits one
\* 'decrypt' warning and nothing else: no push, no 'opus', no 'pcm', no
\* fetch, no decode, and the stream and codec tables are as before.
OpenFails ==
  /\ vrOp' = "listener"
  /\ \E m \in Datagrams, i \in VrEventsNext("open") :
       /\ Bytes(m) = vrEmitted'[1].b
       /\ secretboxOpen(m, vrEmitted'[i].b, nonce') = Fail

C9_Step ==
  OpenFails =>
    /\ Cardinality(VrEventsNext("warn:decrypt")) = 1
    /\ \A ev \in {"push:opus", "push:pcm", "opus", "pcm", "fetch", "decode", "warn:decode"} :
         VrEventsNext(ev) = {}
    /\ UNCHANGED <<pcmStreams, opusStreams, opusEncoders, releasedStreams, releasedDecoders>>

C9_DecryptFailureDiscards == [][C9_Step]_vars

C9_Witness ==
  /\ vrOp = "listener" /\ VrEventFor("warn:decrypt", 1)
  /\ opusStreams[1] # <<>> /\ pcmStreams[1] # <<>> /\ pcmListeners > 0

\* C10 as claimed.  No stream receives end-of-stream twice and no decoder is
\* destroyed twice; a stream or decoder that has left its table has been
\* ended or destroyed exactly once; destroy() on a destroyed receiver with
\* empty tables changes no field.
C10_ExactlyOnce ==
  /\ \A e \in releasedStreams : e = 1
  /\ \A d \in releasedDecoders : d = 1
  /\ \A u \in Users : \A i \in DOMAIN opusEncoders[u] : opusEncoders[u][i].destroys <= 1
  /\ \A u \in Users : \A i \in DOMAIN pcmStreams[u] : pcmStreams[u][i].ends <= 1
  /\ \A u \in Users : \A i \in DOMAIN opusStreams[u] : opusStreams[u][i].ends <= 1

C10_SecondDestroy ==
  (vrOp' = "destroy" /\ destroyed /\ Size(pcmStreams) + Size(opusStreams) + Size(opusEncoders) = 0)
    => UNCHANGED <<pcmStreams, opusStreams, opusEncoders, speakingTimeouts, destroyed,
                   disconnectTimer, udpListeners, releasedStreams, releasedDecoders>>

C10_TeardownExactlyOnce == [](C10_ExactlyOnce) /\ [][C10_SecondDestroy]_vars

\* C12.  Every datagram handled, resolved or not, leaves the liveness timer
\* armed for the full 3000 ms; the timer calls back when its 3000 ms have run
\* out with no datagram in between, and the callback leaves no liveness timer,
\* emits one reconnect-required error on a receiver that is not destroyed and
\* changes nothing else (the listener stays attached, nothing is re-created);
\* at most one liveness timer runs, the one disconnectTimer names.
LivenessTimers == {h \in Running : timeoutFor[h] = 0}

C12_OneTimer ==
  /\ Cardinality(LivenessTimers) <= 1
  /\ LivenessTimers \subseteq {disconnectTimer}

C12_Step ==
  /\ vrOp' = "listener" =>
       /\ disconnectTimer' # Null
       /\ timeoutLeft'[disconnectTimer'] = DisconnectWindow
       /\ timeoutFor'[disconnectTimer'] = 0
       /\ disconnectTimer # Null => disconnectTimer' = disconnectTimer
  /\ vrOp' = "disconnectTimeout" =>
       /\ disconnectTimer # Null /\ timeoutLeft[disconnectTimer] = 0
       /\ disconnectTimer' = Null
       /\ timeoutLeft' = [timeoutLeft EXCEPT ![disconnectTimer] = -1]
       /\ ~destroyed => vrEmitted' = <<Event("error:reconnect_required", 0, <<>>)>>
       /\ destroyed => vrEmitted' = <<>>
       /\ UNCHANGED <<pcmStreams, opusStreams, opusEncoders, speakingTimeouts, destroyed,
                      udpListeners, pcmListeners, speaking, timeoutFor>>

C12_LivenessTimer == [](C12_OneTimer) /\ [][C12_Step]_vars

\* the timer fired on a live receiver after an unresolved datagram only
C12_Witness ==
  /\ vrOp = "disconnectTimeout" /\ ~destroyed /\ disconnectTimer = Null
  /\ VrEventFor("error:reconnect_required", 0)
  /\ \A s \in SSRCs : speaking[s] # "start"

\* C13.  A datagram whose source identifier is not in the session's map is
\* dropped: the call emits nothing but the log line of a discriminant 144,
\* attempts no decryption, leaves the notifications, the speaking timers,
\* the tables and the nonce as they were, and touches no timer but the
\* liveness timer.
UnresolvedDatagram ==
  vrOp' = "listener" /\ readUInt32BE(vrEmitted'[1].b, 8) \notin Users

C13_Step ==
  UnresolvedDatagram =>
    LET msg == vrEmitted'[1].b
        ssrc == readUInt32BE(msg, 8)
        heard == Event("message", 0, msg)
    IN /\ vrEmitted' = IF ByteAt(msg, 0) = SpeakingPacketType
                         THEN <<heard, Event("log:ssrc not found", ssrc, <<>>)>>
                         ELSE <<heard>>
       /\ UNCHANGED <<pcmStreams, opusStreams, opusEncoders, speakingTimeouts, speaking,
                      nonce, destroyed, udpListeners, pcmListeners, releasedStreams,
                      releasedDecoders>>
       /\ \A h \in TimeoutHandles \ {disconnectTimer'} :
            timeoutLeft'[h] = timeoutLeft[h] /\ timeoutFor'[h] = timeoutFor[h]

C14_Step ==
  /\ vrOp' = "speakingTimeout" =>
       \A s \in SSRCs : VrEventForNext("speaking:false", s) => speakingTimeouts'[s] = Null
  /\ \A s \in SSRCs :
       (/\ vrOp' = "listener" /\ readUInt32BE(vrEmitted'[1].b, 8) = s /\ ssrcMap(s) # Null
        /\ speaking[s] = "stop")
         => /\ VrEventForNext("speaking:true", s)
            /\ speakingTimeouts'[s] # Null
            /\ timeoutLeft'[speakingTimeouts'[s]] = SpeakingWindow

C14_EntryRemovedOnFire == [][C14_Step]_vars

\* C15 as claimed.  A frame of a speaker is decoded, and a decoder fetched
\* for that speaker, only when there is a 'pcm' listener or that speaker has
\* a decoded-audio stream registered.
C15_Step ==
  vrOp' = "listener" =>
    \A u \in Users :
      (VrEventForNext("opus", u) /\ (VrEventsNext("decode") # {} \/ VrEventForNext("fetch", u)))
        => (pcmListeners > 0 \/ pcmStreams[u] # <<>>)

C15_DecodePerSpeaker == [][C15_Step]_vars

\* C16 as claimed.  Stop-speaking teardown for an identity leaves that
\* identity without an entry in opusStreams, pcmStreams and opusEncoders, so
\* no table holds a destroyed decoder and every decode uses a decoder that
\* has not been destroyed.
C16_NoDestroyedDecoderKept ==
  \A u \in Users : \A i \in DOMAIN opusEncoders[u] : opusEncoders[u][i].destroys = 0

C16_Step ==
  /\ \A u \in Users :
       /\ VrEventForNext("end:opus", u) => opusStreams'[u] = <<>>
       /\ VrEventForNext("end:pcm", u) => pcmStreams'[u] = <<>>
       /\ (vrOp' = "stoppedSpeaking" /\ VrEventForNext("destroyDecoder", u))
            => opusEncoders'[u] = <<>>
  /\ \A i \in VrEventsNext("decode") : vrEmitted'[i].a = 0

C16_TeardownClearsCodec == [](C16_NoDestroyedDecoderKept) /\ [][C16_Step]_vars

\* C17 as claimed.  destroy() detaches the datagram listener and leaves the
\* stream, codec and speaking-timer tables empty and no timer running; on a
\* destroyed receiver no speaking notification and no reconnect-required
\* error is produced.
C17_Step ==
  /\ vrOp' = "destroy" =>
       /\ udpListeners' = 0 /\ destroyed'
       /\ Size(pcmStreams') + Size(opusStreams') + Size(opusEncoders') = 0
       /\ \A s \in SSRCs : speakingTimeouts'[s] = Null
       /\ disconnectTimer' = Null
       /\ \A h \in TimeoutHandles : timeoutLeft'[h] = -1
  /\ destroyed =>
       /\ \A s \in SSRCs : ~VrEventForNext("speaking:true", s) /\ ~VrEventForNext("speaking:false", s)
       /\ ~VrEventForNext("error:reconnect_required", 0)

C17_DestroyClearsAll == [][C17_Step]_vars

====
